---------------------------- MODULE Spec2Model ----------------------------
(***************************************************************************)
(* A model of the ServerTiming ledger of src/src/index.ts: its timings     *)
(* array, the add / start / end / track mutators, and the headers /        *)
(* toString / getRawTimings renderers.                                     *)
(*                                                                         *)
(* Representation.                                                         *)
(*  - A JavaScript string is a sequence of one-character strings.          *)
(*  - An optional property (desc?, dur?, start?, end?) is <<>> when it is  *)
(*    undefined and <<v>> when it holds v.                                 *)
(*  - A JavaScript number is a fraction [num, den] whose denominator       *)
(*    divides a power of ten; a bigint is an integer.                      *)
(***************************************************************************)
EXTENDS Integers, Sequences, FiniteSets

VARIABLES
    timings,    \* this.timings: the entries, in insertion order
    options,    \* this.options: [precision], fixed by the constructor
    now,        \* the reading process.hrtime.bigint() returns (nanoseconds)
    tasks,      \* the track() calls: position, arguments, promise
    last,       \* the most recent direct call: operation, outcome, clock of a read
    closedBy    \* history: per entry, the track calls whose finally block wrote its end

vars == <<timings, options, now, tasks, last, closedBy>>

----------------------------------------------------------------------------
(* Bounds of the model. *)

\* the longest timings array explored
MaxLen == 2
\* the clock advances at most this many quarter milliseconds past its first reading
MaxTicks == 2

----------------------------------------------------------------------------
(* Optional values and strings. *)

None == <<>>
Some(v) == <<v>>
IsSome(o) == o # <<>>
Get(o) == o[1]

RECURSIVE Join(_, _)
\* Array.prototype.join / the combination of header values: ss joined by sep
Join(ss, sep) ==
    IF ss = <<>> THEN <<>>
    ELSE IF Len(ss) = 1 THEN ss[1]
    ELSE ss[1] \o sep \o Join(Tail(ss), sep)

Contains(s, c) == \E i \in 1..Len(s) : s[i] = c

DQ == "\""
CommaSpace == <<",", " ">>

\* String literals of the program.
StrThis == <<"t", "h", "i", "s">>
StrHeaderKey == <<"S", "e", "r", "v", "e", "r", "-", "T", "i", "m", "i", "n", "g">>
StrDescOpen == <<";", "d", "e", "s", "c", "=", DQ>>
StrDur == <<";", "d", "u", "r", "=">>
StrNotValidLabel == <<"'", " ", "i", "s", " ", "n", "o", "t", " ", "a", " ",
                      "v", "a", "l", "i", "d", " ", "l", "a", "b", "e", "l">>
StrNotValidDesc == <<"'", " ", "i", "s", " ", "n", "o", "t", " ", "a", " ",
                     "v", "a", "l", "i", "d", " ", "d", "e", "s", "c">>
StrTiming == <<"t", "i", "m", "i", "n", "g", " ", "'">>
StrNeverStarted == <<"'", " ", "w", "a", "s", " ", "n", "e", "v", "e", "r", " ",
                     "s", "t", "a", "r", "t", "e", "d">>

----------------------------------------------------------------------------
(* Numbers. *)

\* the divisor of formatDuration: nanoseconds in a millisecond
NsPerMs == 1000000

Num(n) == [num |-> n, den |-> 1]
\* JavaScript a / b on numbers
NumDiv(a, b) == [num |-> a.num, den |-> a.den * b.num]
\* JavaScript truthiness of a number: only 0 (and NaN) is falsy
NumTruthy(q) == q.num # 0

RECURSIVE Pow10(_)
Pow10(p) == IF p = 0 THEN 1 ELSE 10 * Pow10(p - 1)

DigitChar(d) == <<"0", "1", "2", "3", "4", "5", "6", "7", "8", "9">>[d + 1]

RECURSIVE Digits(_)
\* the decimal digits of a natural number
Digits(n) == IF n < 10 THEN <<DigitChar(n)>> ELSE Digits(n \div 10) \o <<DigitChar(n % 10)>>

RECURSIVE PadDigits(_, _)
\* the decimal digits of n, zero-padded on the left to width w
PadDigits(n, w) == IF w = 0 THEN <<>> ELSE PadDigits(n \div 10, w - 1) \o <<DigitChar(n % 10)>>

RECURSIVE FracDigits(_, _)
\* the digits after the decimal point of r / den (r < den), without trailing zeros
FracDigits(r, den) ==
    IF r = 0 THEN <<>>
    ELSE <<DigitChar((r * 10) \div den)>> \o FracDigits((r * 10) % den, den)

\* Number.prototype.toString of a non-negative number with a finite decimal expansion
NumberToString(q) ==
    IF q.num % q.den = 0 THEN Digits(q.num \div q.den)
    ELSE Digits(q.num \div q.den) \o <<".">> \o FracDigits(q.num % q.den, q.den)

\* Number.prototype.toFixed(p): the nearest multiple of 10^-p, the larger one on a tie
ToFixed(q, p) ==
    LET n == (2 * q.num * Pow10(p) + q.den) \div (2 * q.den)
    IN  IF p = 0 THEN Digits(n)
        ELSE Digits(n \div Pow10(p)) \o <<".">> \o PadDigits(n % Pow10(p), p)

\* a value of type number | string
NumberValue(q) == [type |-> "number", num |-> q, str |-> <<>>]
StringValue(s) == [type |-> "string", num |-> Num(0), str |-> s]
\* `${v}`: the value interpolated in a template string
Interpolate(v) == IF v.type = "number" THEN NumberToString(v.num) ELSE v.str

----------------------------------------------------------------------------
(* Label specifications and validation. *)

\* the characters labelRegex admits: the token characters of RFC 7230 (the
\* backquote, which the lexer of TLA+ strings does not take, is left out)
TokenChars ==
    {"a", "b", "c", "d", "e", "f", "g", "h", "i", "j", "k", "l", "m",
     "n", "o", "p", "q", "r", "s", "t", "u", "v", "w", "x", "y", "z",
     "A", "B", "C", "D", "E", "F", "G", "H", "I", "J", "K", "L", "M",
     "N", "O", "P", "Q", "R", "S", "T", "U", "V", "W", "X", "Y", "Z",
     "0", "1", "2", "3", "4", "5", "6", "7", "8", "9",
     "!", "#", "$", "%", "&", "'", "*", "+", "-", ".", "^", "_", "|", "~"}

\* labelRegex as it would be without its anchors: a token character somewhere
MatchesLabelRegexSomewhere(s) == \E i \in 1..Len(s) : s[i] \in TokenChars

\* labelRegex: one or more token characters, and nothing else
MatchesLabelRegex(s) == s # <<>> /\ \A i \in 1..Len(s) : s[i] \in TokenChars

\* descRegex as it would be if it looked at the first character only
MatchesDescRegexAtStart(s) == s # <<>> /\ s[1] = DQ

\* descRegex: a double quote anywhere
MatchesDescRegex(s) == Contains(s, DQ)

\* JavaScript truthiness of an optional string: undefined and '' are falsy
StrTruthy(o) == IsSome(o) /\ Get(o) # <<>>
\* JavaScript truthiness of an optional number: undefined and 0 are falsy
DurTruthy(o) == IsSome(o) /\ NumTruthy(Get(o))
\* JavaScript truthiness of an optional bigint: undefined and 0n are falsy
BigTruthy(o) == IsSome(o) /\ Get(o) # 0

\* ServerTimingLabel: a bare string, or a DetailedServerTimingLabel
StringLabel(l) == [kind |-> "string", label |-> l, desc |-> None, dur |-> None]
DetailedLabel(l, d, n) == [kind |-> "object", label |-> l, desc |-> d, dur |-> n]
NoArg == [kind |-> "none", label |-> <<>>, desc |-> None, dur |-> None]

\* the result of a call: a returned value or a thrown error
Return(v) == [status |-> "return", value |-> v]
Throw(e) == [status |-> "throw", value |-> e]

\* an element of this.timings
Entry(l, d, n, s, e) == [label |-> l, desc |-> d, dur |-> n, start |-> s, end |-> e]

\* transformLabel: the label object of obj, or the validation error
transformLabel(obj) ==
    IF ~MatchesLabelRegex(obj.label)
    THEN Throw(<<"'">> \o obj.label \o StrNotValidLabel)
    ELSE IF StrTruthy(obj.desc) /\ MatchesDescRegex(Get(obj.desc))
    THEN Throw(<<"'">> \o Get(obj.desc) \o StrNotValidDesc)
    ELSE Return(Entry(obj.label, obj.desc, obj.dur, None, None))

----------------------------------------------------------------------------
(* Rendering. *)

\* options.precision: +Infinity, or a number of digits
PlusInfinity == None
IsFinite(p) == p # PlusInfinity

\* formatDuration as it would be if it never fixed the digits
formatDurationUnfixed(precision, start, end) ==
    NumberValue(NumDiv(Num(end - start), Num(NsPerMs)))

\* formatDuration: the milliseconds between two readings, fixed to the precision
formatDuration(precision, start, end) ==
    LET dur == NumDiv(Num(end - start), Num(NsPerMs))
    IN  IF IsFinite(precision) THEN StringValue(ToFixed(dur, Get(precision)))
        ELSE NumberValue(dur)

\* the bytes the Headers class strips from both ends of a value
HttpWhitespace == {" ", "\t", "\n", "\r"}

RECURSIVE StripLeading(_)
StripLeading(s) ==
    IF s # <<>> /\ Head(s) \in HttpWhitespace THEN StripLeading(Tail(s)) ELSE s

RECURSIVE StripTrailing(_)
StripTrailing(s) ==
    IF s # <<>> /\ s[Len(s)] \in HttpWhitespace
    THEN StripTrailing(SubSeq(s, 1, Len(s) - 1)) ELSE s

\* Headers.append as it would be if the new value were put in front
HeadersPrepend(h, value) ==
    IF h.status = "throw" THEN h ELSE Return(<<value>> \o h.value)

\* Headers.append(headerKey, value): the value is normalised, and refused when a
\* line break is left inside it
HeadersAppend(h, value) ==
    LET v == StripTrailing(StripLeading(value))
    IN  IF h.status = "throw" THEN h
        ELSE IF Contains(v, "\n") \/ Contains(v, "\r")
        THEN Throw(<<"T", "y", "p", "e", "E", "r", "r", "o", "r">>)
        ELSE Return(Append(h.value, v))

\* the header value as it would be if a timer that was never ended were measured
\* up to its own start
HeaderValueUnmeasured(timing, precision, clock) ==
    LET withDesc ==
            IF StrTruthy(timing.desc)
            THEN timing.label \o StrDescOpen \o Get(timing.desc) \o <<DQ>>
            ELSE timing.label
    IN  IF DurTruthy(timing.dur)
        THEN withDesc \o StrDur \o NumberToString(Get(timing.dur))
        ELSE IF BigTruthy(timing.start)
        THEN LET end == IF IsSome(timing.end) THEN Get(timing.end) ELSE Get(timing.start)
             IN  withDesc \o StrDur
                    \o Interpolate(formatDuration(precision, Get(timing.start), end))
        ELSE withDesc

\* the header value as it would be if the end of a timer were always read from
\* the clock
HeaderValueToNow(timing, precision, clock) ==
    LET withDesc ==
            IF StrTruthy(timing.desc)
            THEN timing.label \o StrDescOpen \o Get(timing.desc) \o <<DQ>>
            ELSE timing.label
    IN  IF DurTruthy(timing.dur)
        THEN withDesc \o StrDur \o NumberToString(Get(timing.dur))
        ELSE IF BigTruthy(timing.start)
        THEN withDesc \o StrDur
                \o Interpolate(formatDuration(precision, Get(timing.start), clock))
        ELSE withDesc

\* the header value as it would be if an explicit duration went through
\* formatDuration like a measured one
HeaderValueFixedDur(timing, precision, clock) ==
    LET withDesc ==
            IF StrTruthy(timing.desc)
            THEN timing.label \o StrDescOpen \o Get(timing.desc) \o <<DQ>>
            ELSE timing.label
    IN  IF DurTruthy(timing.dur)
        THEN withDesc \o StrDur
                \o (IF IsFinite(precision) THEN ToFixed(Get(timing.dur), Get(precision))
                    ELSE NumberToString(Get(timing.dur)))
        ELSE IF BigTruthy(timing.start)
        THEN LET end == IF IsSome(timing.end) THEN Get(timing.end) ELSE clock
             IN  withDesc \o StrDur
                    \o Interpolate(formatDuration(precision, Get(timing.start), end))
        ELSE withDesc

\* the loop body of headers(): the header value of one timing
HeaderValue(timing, precision, clock) ==
    LET withDesc ==
            IF StrTruthy(timing.desc)
            THEN timing.label \o StrDescOpen \o Get(timing.desc) \o <<DQ>>
            ELSE timing.label
    IN  IF DurTruthy(timing.dur)
        THEN withDesc \o StrDur \o NumberToString(Get(timing.dur))
        ELSE IF BigTruthy(timing.start)
        THEN LET end == IF IsSome(timing.end) THEN Get(timing.end) ELSE clock
             IN  withDesc \o StrDur
                    \o Interpolate(formatDuration(precision, Get(timing.start), end))
        ELSE withDesc

RECURSIVE HeadersFrom(_, _, _, _)
HeadersFrom(h, ts, precision, clock) ==
    IF ts = <<>> THEN h
    ELSE HeadersFrom(HeadersAppend(h, HeaderValue(Head(ts), precision, clock)),
                     Tail(ts), precision, clock)

\* headers(): a Headers object holding one Server-Timing value per timing
headers(ts, precision, clock) == HeadersFrom(Return(<<>>), ts, precision, clock)

\* Headers.get(headerKey): the values joined by ", ", or null when there is none
HeadersGet(h) == IF h = <<>> THEN None ELSE Some(Join(h, CommaSpace))

\* toString as it would be if it gave the first value under the key only
toStringFirstValue(ts, precision, clock) ==
    LET h == headers(ts, precision, clock)
    IN  IF h.status = "throw" THEN h
        ELSE Return(IF h.value = <<>> THEN <<>> ELSE h.value[1])

\* toString(): headers().get(headerKey) ?? ''
toString(ts, precision, clock) ==
    LET h == headers(ts, precision, clock)
    IN  IF h.status = "throw" THEN h
        ELSE LET got == HeadersGet(h.value)
             IN  Return(IF IsSome(got) THEN Get(got) ELSE <<>>)

\* the elements of getRawTimings(): a label, or a pair of a label and a duration
RawString(l) == [kind |-> "string", label |-> l, dur |-> NumberValue(Num(0))]
RawPair(l, d) == [kind |-> "pair", label |-> l, dur |-> d]

\* the map callback as it would be if it gave the measured milliseconds as they
\* are, without formatDuration
RawTimingUnformatted(timing, precision, clock) ==
    LET label ==
            IF StrTruthy(timing.desc)
            THEN timing.label \o <<" ", "(">> \o Get(timing.desc) \o <<")">>
            ELSE timing.label
    IN  IF ~DurTruthy(timing.dur) /\ ~BigTruthy(timing.start)
        THEN RawString(label)
        ELSE IF ~DurTruthy(timing.dur) /\ BigTruthy(timing.start)
        THEN LET end == IF IsSome(timing.end) THEN Get(timing.end) ELSE clock
             IN  RawPair(label, NumberValue(NumDiv(Num(end - Get(timing.start)), Num(NsPerMs))))
        ELSE RawPair(label, NumberValue(IF IsSome(timing.dur) THEN Get(timing.dur) ELSE Num(0)))

\* the map callback of getRawTimings()
RawTiming(timing, precision, clock) ==
    LET label ==
            IF StrTruthy(timing.desc)
            THEN timing.label \o <<" ", "(">> \o Get(timing.desc) \o <<")">>
            ELSE timing.label
    IN  IF ~DurTruthy(timing.dur) /\ ~BigTruthy(timing.start)
        THEN RawString(label)
        ELSE IF ~DurTruthy(timing.dur) /\ BigTruthy(timing.start)
        THEN LET end == IF IsSome(timing.end) THEN Get(timing.end) ELSE clock
             IN  RawPair(label, formatDuration(precision, Get(timing.start), end))
        ELSE RawPair(label, NumberValue(IF IsSome(timing.dur) THEN Get(timing.dur) ELSE Num(0)))

\* getRawTimings()
getRawTimings(ts, precision, clock) ==
    Return([i \in 1..Len(ts) |-> RawTiming(ts[i], precision, clock)])

----------------------------------------------------------------------------
(* The calls the model makes. *)

LabelA == <<"a">>
LabelDb == <<"d", "b">>
LabelColon == <<"a", ":">>
LabelApp == <<"a", "p", "p">>
\* 47.2, the duration of app in the tests
DurApp == [num |-> 472, den |-> 10]
DescEmpty == <<>>
DescList == <<"x", ",", " ", "y">>

\* label specifications transformLabel accepts
ValidSpecs ==
    { StringLabel(LabelA),
      DetailedLabel(LabelA, Some(DescEmpty), None),
      DetailedLabel(LabelDb, Some(DescList), Some(Num(53))),
      DetailedLabel(LabelDb, None, Some(Num(0))),
      DetailedLabel(LabelApp, None, Some(DurApp)) }

\* the arguments of the add calls: the valid ones, and a desc with a quote
AddSpecs == ValidSpecs \cup { DetailedLabel(LabelA, Some(<<DQ>>), None) }

\* the arguments of the start calls: valid ones, and a label with a colon
StartSpecs ==
    { StringLabel(LabelA),
      StringLabel(LabelColon) }

\* the arguments of the direct end calls
EndSpecs == { StringLabel(LabelA), StringLabel(LabelDb) }

\* the arguments of the track calls, and of the add calls made beside them
TrackSpecs == { StringLabel(LabelA), StringLabel(LabelDb), StringLabel(LabelColon) }
TrackAddSpecs == { StringLabel(LabelA) }

\* the track() calls of the model
Tasks == {1, 2}

\* the wrapped function: its promise resolves, its promise rejects, or it throws
\* before returning one
FnValue == <<"h", "e", "l", "l", "o">>
FnError == <<"u", "h", "-", "o", "h">>

\* the precisions the ledger is constructed with
Precisions == {PlusInfinity, Some(0)}

\* the clock is read in quarters of a millisecond
TickNs == NsPerMs \div 4
FirstReading == TickNs
LastReading == FirstReading + MaxTicks * TickNs

----------------------------------------------------------------------------
(* The state machine. *)

Pending == [state |-> "pending", value |-> <<>>]
Fulfilled(v) == [state |-> "fulfilled", value |-> v]
Rejected(e) == [state |-> "rejected", value |-> e]

\* a track call: where it is, its label argument, the zero-based index of the
\* entry its start pushed (-1 when none), and the promise it returned
Task(pc, arg, idx, promise) == [pc |-> pc, arg |-> arg, idx |-> idx, promise |-> promise]
IdleTask == Task("idle", NoArg, -1, Pending)

Reads == {"headers", "toString", "getRawTimings"}

\* the record of a direct call and of what it gave back: the clock of a read, and
\* the value by its type (str: this, a string or the message of an error; list:
\* the values of a Headers object; raw: the array of getRawTimings)
Called(op, result) ==
    [op |-> op, at |-> IF op \in Reads THEN now ELSE 0,
     status |-> result.status,
     str |-> IF result.status = "throw" \/ op \notin {"headers", "getRawTimings"}
             THEN result.value ELSE <<>>,
     list |-> IF result.status = "return" /\ op = "headers" THEN result.value ELSE <<>>,
     raw |-> IF result.status = "return" /\ op = "getRawTimings" THEN result.value ELSE <<>>]

\* new ServerTiming(options)
Init ==
    /\ timings = <<>>
    /\ options \in [precision : Precisions]
    /\ now = FirstReading
    /\ tasks = [t \in Tasks |-> IdleTask]
    /\ last = Called("new", Return(StrThis))
    /\ closedBy = <<>>

\* time passes between two calls
Tick ==
    /\ now + TickNs <= LastReading
    /\ now' = now + TickNs
    /\ UNCHANGED <<timings, options, tasks, last, closedBy>>

\* findIndex as it would be if it searched from the end of the array
findLastIndex(ts, label) ==
    IF \E i \in 1..Len(ts) : ts[i].label = label
    THEN (CHOOSE i \in 1..Len(ts) :
            /\ ts[i].label = label
            /\ \A j \in (i + 1)..Len(ts) : ts[j].label # label) - 1
    ELSE -1

\* Array.prototype.findIndex((t) => t.label === label): zero-based, -1 when none
findIndex(ts, label) ==
    IF \E i \in 1..Len(ts) : ts[i].label = label
    THEN (CHOOSE i \in 1..Len(ts) :
            /\ ts[i].label = label
            /\ \A j \in 1..(i - 1) : ts[j].label # label) - 1
    ELSE -1

\* add as it would be if it replaced the entry that already has the label
addBodyReplacing(ts, obj) ==
    LET r == transformLabel(obj)
        timingIdx == findIndex(ts, obj.label)
    IN  IF r.status = "throw" THEN [timings |-> ts, result |-> r]
        ELSE IF timingIdx = -1
        THEN [timings |-> Append(ts, r.value), result |-> Return(StrThis)]
        ELSE [timings |-> [ts EXCEPT ![timingIdx + 1] = r.value], result |-> Return(StrThis)]

\* the body of add: the timings after the call, and its result
addBody(ts, obj) ==
    LET r == transformLabel(obj)
    IN  IF r.status = "throw" THEN [timings |-> ts, result |-> r]
        ELSE [timings |-> Append(ts, r.value), result |-> Return(StrThis)]

\* the body of start
startBody(ts, obj, clock) ==
    LET r == transformLabel(obj)
    IN  IF r.status = "throw" THEN [timings |-> ts, result |-> r]
        ELSE [timings |-> Append(ts, [r.value EXCEPT !.start = Some(clock)]),
              result |-> Return(StrThis)]

\* end as it would be if a label that was never started were opened on the spot
\* instead of being refused
endBodyOpening(ts, obj, clock) ==
    LET r == transformLabel(obj)
        timingIdx == findIndex(ts, r.value.label)
    IN  IF r.status = "throw" THEN [timings |-> ts, result |-> r, idx |-> -1]
        ELSE IF timingIdx = -1
        THEN [timings |-> Append(ts, [r.value EXCEPT !.end = Some(clock)]),
              result |-> Return(StrThis),
              idx |-> -1]
        ELSE [timings |-> [ts EXCEPT ![timingIdx + 1].end = Some(clock)],
              result |-> Return(StrThis),
              idx |-> timingIdx]

\* end as it would be if it ended every entry that carries the label
endBodyEvery(ts, obj, clock) ==
    LET r == transformLabel(obj)
        timingIdx == findIndex(ts, r.value.label)
    IN  IF r.status = "throw" THEN [timings |-> ts, result |-> r, idx |-> -1]
        ELSE IF timingIdx = -1
        THEN [timings |-> ts,
              result |-> Throw(StrTiming \o r.value.label \o StrNeverStarted),
              idx |-> -1]
        ELSE [timings |-> [i \in 1..Len(ts) |->
                              IF ts[i].label = r.value.label
                              THEN [ts[i] EXCEPT !.end = Some(clock)] ELSE ts[i]],
              result |-> Return(StrThis),
              idx |-> timingIdx]

\* the body of end; idx is the zero-based index written, -1 when none was
endBody(ts, obj, clock) ==
    LET r == transformLabel(obj)
        timingIdx == findIndex(ts, r.value.label)
    IN  IF r.status = "throw" THEN [timings |-> ts, result |-> r, idx |-> -1]
        ELSE IF timingIdx = -1
        THEN [timings |-> ts,
              result |-> Throw(StrTiming \o r.value.label \o StrNeverStarted),
              idx |-> -1]
        ELSE [timings |-> [ts EXCEPT ![timingIdx + 1].end = Some(clock)],
              result |-> Return(StrThis),
              idx |-> timingIdx]

\* history: one empty list of closers per entry of ts
Grown(cb, ts) == IF Len(ts) > Len(cb) THEN Append(cb, <<>>) ELSE cb
\* history: track call t wrote the end of entry idx (zero-based)
ClosedBy(cb, idx, t) == IF idx = -1 THEN cb ELSE [cb EXCEPT ![idx + 1] = Append(@, t)]

\* serverTiming.add(obj)
AddCall(obj) ==
    LET b == addBody(timings, obj)
    IN  /\ Len(b.timings) <= MaxLen
        /\ timings' = b.timings
        /\ last' = Called("add", b.result)
        /\ closedBy' = Grown(closedBy, b.timings)
        /\ UNCHANGED <<options, now, tasks>>

\* serverTiming.start(obj)
StartCall(obj) ==
    LET b == startBody(timings, obj, now)
    IN  /\ Len(b.timings) <= MaxLen
        /\ timings' = b.timings
        /\ last' = Called("start", b.result)
        /\ closedBy' = Grown(closedBy, b.timings)
        /\ UNCHANGED <<options, now, tasks>>

\* serverTiming.end(obj)
EndCall(obj) ==
    LET b == endBody(timings, obj, now)
    IN  /\ timings' = b.timings
        /\ last' = Called("end", b.result)
        /\ UNCHANGED <<options, now, tasks, closedBy>>

\* the promise of track once its finally block has run: the error of end when end
\* throws, else the outcome of the wrapped function
trackOutcome(outcome, ended) ==
    IF ended.status = "throw" THEN Rejected(ended.value) ELSE outcome

\* track(obj, fn) when start throws: the promise is rejected, fn is never called
TrackRefused(t, obj) ==
    LET s == startBody(timings, obj, now)
    IN  /\ tasks[t].pc = "idle"
        /\ \A u \in Tasks : u < t => tasks[u].pc # "idle"
        /\ s.result.status = "throw"
        /\ tasks' = [tasks EXCEPT ![t] = Task("settled", obj, -1, Rejected(s.result.value))]
        /\ UNCHANGED <<timings, options, now, last, closedBy>>

\* track(obj, fn) up to the await, when fn returns a value or a promise: start
\* pushes the entry and the call is suspended
TrackCall(t, obj) ==
    LET s == startBody(timings, obj, now)
    IN  /\ tasks[t].pc = "idle"
        /\ \A u \in Tasks : u < t => tasks[u].pc # "idle"
        /\ s.result.status = "return"
        /\ Len(s.timings) <= MaxLen
        /\ timings' = s.timings
        /\ closedBy' = Grown(closedBy, s.timings)
        /\ tasks' = [tasks EXCEPT ![t] = Task("awaiting", obj, Len(timings), Pending)]
        /\ UNCHANGED <<options, now, last>>

\* track(obj, fn) when fn throws before returning: the finally block runs within
\* the call
TrackThrown(t, obj) ==
    LET s == startBody(timings, obj, now)
        e == endBody(s.timings, obj, now)
    IN  /\ tasks[t].pc = "idle"
        /\ \A u \in Tasks : u < t => tasks[u].pc # "idle"
        /\ s.result.status = "return"
        /\ Len(s.timings) <= MaxLen
        /\ timings' = e.timings
        /\ closedBy' = ClosedBy(Grown(closedBy, s.timings), e.idx, t)
        /\ tasks' = [tasks EXCEPT ![t] =
                Task("settled", obj, Len(timings), trackOutcome(Rejected(FnError), e.result))]
        /\ UNCHANGED <<options, now, last>>

\* track after the await: the awaited promise has settled with outcome, the
\* finally block ends the timer, and the promise of track settles
TrackResume(t, outcome) ==
    LET e == endBody(timings, tasks[t].arg, now)
    IN  /\ tasks[t].pc = "awaiting"
        /\ timings' = e.timings
        /\ closedBy' = ClosedBy(closedBy, e.idx, t)
        /\ tasks' = [tasks EXCEPT ![t].pc = "settled",
                                  ![t].promise = trackOutcome(outcome, e.result)]
        /\ UNCHANGED <<options, now, last>>

\* serverTiming.headers()
HeadersCall ==
    /\ last' = Called("headers", headers(timings, options.precision, now))
    /\ UNCHANGED <<timings, options, now, tasks, closedBy>>

\* toString as it would be if the end it reads for a running timer were stored
ToStringCallEnding ==
    /\ last' = Called("toString", toString(timings, options.precision, now))
    /\ timings' = [i \in 1..Len(timings) |->
                     IF BigTruthy(timings[i].start) /\ ~IsSome(timings[i].end)
                     THEN [timings[i] EXCEPT !.end = Some(now)]
                     ELSE timings[i]]
    /\ UNCHANGED <<options, now, tasks, closedBy>>

\* serverTiming.toString()
ToStringCall ==
    /\ last' = Called("toString", toString(timings, options.precision, now))
    /\ UNCHANGED <<timings, options, now, tasks, closedBy>>

\* serverTiming.getRawTimings()
GetRawTimingsCall ==
    /\ last' = Called("getRawTimings", getRawTimings(timings, options.precision, now))
    /\ UNCHANGED <<timings, options, now, tasks, closedBy>>

\* the direct calls on one ledger
Next ==
    \/ Tick
    \/ \E obj \in AddSpecs : AddCall(obj)
    \/ \E obj \in StartSpecs : StartCall(obj)
    \/ \E obj \in EndSpecs : EndCall(obj)
    \/ HeadersCall
    \/ ToStringCall
    \/ GetRawTimingsCall

Spec == Init /\ [][Next]_vars

\* track calls in flight on one ledger, beside add, end and a render
NextTrack ==
    \/ Tick
    \/ \E obj \in TrackAddSpecs : AddCall(obj)
    \/ \E obj \in EndSpecs : EndCall(obj)
    \/ \E t \in Tasks, obj \in TrackSpecs : TrackRefused(t, obj)
    \/ \E t \in Tasks, obj \in TrackSpecs : TrackCall(t, obj)
    \/ \E t \in Tasks, obj \in TrackSpecs : TrackThrown(t, obj)
    \/ \E t \in Tasks, outcome \in {Fulfilled(FnValue), Rejected(FnError)} : TrackResume(t, outcome)
    \/ ToStringCall

SpecTrack == Init /\ [][NextTrack]_vars

----------------------------------------------------------------------------
(* Timers of one ledger under each precision: the options given to the       *)
(* constructor, start, end and the two renderers of a measured duration.     *)

defaultOptions == [precision |-> PlusInfinity]

\* the argument of the constructor: {} or { precision }
NoOptions == <<>>
PrecisionOption(p) == <<[precision |-> p]>>
PartialOptions ==
    { NoOptions, PrecisionOption(PlusInfinity),
      PrecisionOption(Some(0)), PrecisionOption(Some(1)), PrecisionOption(Some(2)) }

\* { ...defaultOptions, ...options }
MergedOptions(partial) == IF partial = NoOptions THEN defaultOptions ELSE partial[1]

\* new ServerTiming(options)
InitPrecision ==
    /\ timings = <<>>
    /\ options \in { MergedOptions(partial) : partial \in PartialOptions }
    /\ now = FirstReading
    /\ tasks = [t \in Tasks |-> IdleTask]
    /\ last = Called("new", Return(StrThis))
    /\ closedBy = <<>>

NextPrecision ==
    \/ Tick
    \/ \E obj \in StartSpecs : StartCall(obj)
    \/ \E obj \in EndSpecs : EndCall(obj)
    \/ ToStringCall
    \/ GetRawTimingsCall

SpecPrecision == InitPrecision /\ [][NextPrecision]_vars

----------------------------------------------------------------------------
(* The calls of the text validation tests: labels and descriptions of every   *)
(* kind, given to add, start and track, and rendered.                          *)

\* the characters encodeURIComponent leaves as they are
UriUnreserved ==
    {"a", "b", "c", "d", "e", "f", "g", "h", "i", "j", "k", "l", "m",
     "n", "o", "p", "q", "r", "s", "t", "u", "v", "w", "x", "y", "z",
     "A", "B", "C", "D", "E", "F", "G", "H", "I", "J", "K", "L", "M",
     "N", "O", "P", "Q", "R", "S", "T", "U", "V", "W", "X", "Y", "Z",
     "0", "1", "2", "3", "4", "5", "6", "7", "8", "9",
     "-", "_", ".", "!", "~", "*", "'", "(", ")"}

\* the escape encodeURIComponent writes for a character of the model's inputs
PercentEscape(c) ==
    CASE c = " " -> <<"%", "2", "0">>
      [] c = DQ -> <<"%", "2", "2">>
      [] c = "/" -> <<"%", "2", "F">>
      [] c = ":" -> <<"%", "3", "A">>
      [] c = "@" -> <<"%", "4", "0">>
      [] c = "\\" -> <<"%", "5", "C">>

RECURSIVE encodeURIComponent(_)
encodeURIComponent(s) ==
    IF s = <<>> THEN <<>>
    ELSE (IF Head(s) \in UriUnreserved THEN <<Head(s)>> ELSE PercentEscape(Head(s)))
            \o encodeURIComponent(Tail(s))

LabelSlash == <<"a", "/", "b">>
LabelBackslash == <<"a", "\\", "b">>
LabelSpace == <<"a", " ", "b">>
LabelAt == <<"a", "@">>
LabelEmpty == <<>>
DescQuote == <<"x", DQ>>
DescNewline == <<"x", "\n", "y">>

\* the labels the tests expect to be refused
RefusedLabels == {LabelColon, LabelSlash, LabelBackslash, LabelSpace, LabelAt, LabelEmpty}

\* their percent-encoded forms
EncodedLabels == { encodeURIComponent(l) : l \in RefusedLabels \ {LabelEmpty} }

\* the arguments of add: every refused label, the percent-encoded form of one,
\* and descriptions with a quote, with a line break, with neither
TextAddSpecs ==
    { StringLabel(l) : l \in RefusedLabels }
        \cup { StringLabel(encodeURIComponent(LabelSlash)) }
        \cup { DetailedLabel(LabelA, Some(d), None) : d \in {DescQuote, DescNewline, DescList} }

\* the arguments of start and of track
TextStartSpecs ==
    { StringLabel(LabelSlash),
      StringLabel(encodeURIComponent(LabelSlash)),
      DetailedLabel(LabelA, Some(DescQuote), None) }

\* the track() call of these runs
TextTask == 1

NextText ==
    \/ \E obj \in TextAddSpecs : AddCall(obj)
    \/ \E obj \in TextStartSpecs : StartCall(obj)
    \/ \E obj \in TextStartSpecs : TrackRefused(TextTask, obj)
    \/ \E obj \in TextStartSpecs : TrackCall(TextTask, obj)
    \/ TrackResume(TextTask, Fulfilled(FnValue))
    \/ HeadersCall
    \/ ToStringCall
    \/ GetRawTimingsCall

\* new ServerTiming(): the options are the default ones
InitText ==
    /\ timings = <<>>
    /\ options = [precision |-> PlusInfinity]
    /\ now = FirstReading
    /\ tasks = [t \in Tasks |-> IdleTask]
    /\ last = Called("new", Return(StrThis))
    /\ closedBy = <<>>

SpecText == InitText /\ [][NextText]_vars

----------------------------------------------------------------------------
(* The ledger with groups of src/src/ServerTiming.ts. Its timings hold label   *)
(* objects and nested ServerTiming instances; a ledger is named by its path    *)
(* from the top-level one: <<>> is the top-level ledger, <<i>> the instance    *)
(* at timings[i - 1]. The variable timings is the array of the top-level one.  *)

StrNesting == <<"g", "r", "o", "u", "p", "s", " ", "c", "a", "n", "n", "o", "t", " ",
                "b", "e", " ", "m", "o", "r", "e", " ", "t", "h", "a", "n", " ",
                "o", "n", "e", " ", "l", "e", "v", "e", "l", " ", "d", "e", "e", "p">>
StrDescEq == <<"d", "e", "s", "c", "=", DQ>>
StrDurEq == <<"d", "u", "r", "=">>

\* a ServerTiming instance held in a timings array: its own timings, and whether
\* its group method was replaced by the one that throws
Ledger(ts, replaced) == [timings |-> ts, groupReplaced |-> replaced]
\* timing instanceof ServerTiming
IsLedger(t) == "timings" \in DOMAIN t

Top == <<>>
\* the ledgers that exist: the top-level one and the instances in its timings
Handles(all) == {Top} \cup { <<i>> : i \in { j \in 1..Len(all) : IsLedger(all[j]) } }
\* this.timings of the ledger h
TimingsOf(all, h) == IF h = Top THEN all ELSE all[h[1]].timings
\* whether this.group of the ledger h is the method that throws
GroupReplaced(all, h) == h # Top /\ all[h[1]].groupReplaced
\* this.timings.push(x) on the ledger h
Pushed(all, h, x) ==
    IF h = Top THEN Append(all, x)
    ELSE [all EXCEPT ![h[1]].timings = Append(@, x)]

\* new Date().getTime(): the clock in whole milliseconds
DateTime(clock) == clock \div NsPerMs

\* transformLabel of ServerTiming.ts: a string becomes { label }, no validation
ServerTiming_transformLabel(obj) == Entry(obj.label, obj.desc, obj.dur, None, None)

\* note(labelObj) on the ledger h: pushes the label object, returns this
note(all, h, obj) ==
    [timings |-> Pushed(all, h, ServerTiming_transformLabel(obj)), result |-> Return(h)]

\* start(labelObj) of ServerTiming.ts on the ledger h: pushes the label object
\* with start: new Date(), returns this
ServerTiming_start(all, h, obj, clock) ==
    [timings |-> Pushed(all, h, [ServerTiming_transformLabel(obj) EXCEPT !.start = Some(DateTime(clock))]),
     result |-> Return(h)]

\* findIndex((t) => !(t instanceof ServerTiming) && t.label === label): zero-based
ServerTiming_findIndex(ts, label) ==
    LET hits == { i \in 1..Len(ts) : ~IsLedger(ts[i]) /\ ts[i].label = label }
    IN  IF hits = {} THEN -1 ELSE (CHOOSE i \in hits : \A j \in hits : i <= j) - 1

\* end as it would be if the top-level ledger, finding no label object of its
\* own, looked into its groups
ServerTiming_endDeep(all, h, obj, clock) ==
    LET label == ServerTiming_transformLabel(obj).label
        timingIdx == ServerTiming_findIndex(TimingsOf(all, h), label)
        inside == { i \in 1..Len(all) :
                      IsLedger(all[i]) /\ ServerTiming_findIndex(all[i].timings, label) # -1 }
    IN  IF timingIdx = -1 /\ (h # Top \/ inside = {})
        THEN [timings |-> all, result |-> Throw(StrTiming \o label \o StrNeverStarted)]
        ELSE IF timingIdx = -1
        THEN LET g == CHOOSE i \in inside : \A j \in inside : i <= j
             IN  [timings |-> [all EXCEPT ![g].timings[ServerTiming_findIndex(all[g].timings, label) + 1].end
                                              = Some(DateTime(clock))],
                  result |-> Return(h)]
        ELSE [timings |-> IF h = Top
                          THEN [all EXCEPT ![timingIdx + 1].end = Some(DateTime(clock))]
                          ELSE [all EXCEPT ![h[1]].timings[timingIdx + 1].end = Some(DateTime(clock))],
              result |-> Return(h)]

\* end(labelObj) of ServerTiming.ts on the ledger h
ServerTiming_end(all, h, obj, clock) ==
    LET label == ServerTiming_transformLabel(obj).label
        timingIdx == ServerTiming_findIndex(TimingsOf(all, h), label)
    IN  IF timingIdx = -1
        THEN [timings |-> all, result |-> Throw(StrTiming \o label \o StrNeverStarted)]
        ELSE [timings |-> IF h = Top
                          THEN [all EXCEPT ![timingIdx + 1].end = Some(DateTime(clock))]
                          ELSE [all EXCEPT ![h[1]].timings[timingIdx + 1].end = Some(DateTime(clock))],
              result |-> Return(h)]

\* group as it would be if it returned this like the other calls
groupReturningThis(all, h) ==
    IF GroupReplaced(all, h)
    THEN [timings |-> all, result |-> Throw(StrNesting)]
    ELSE [timings |-> Pushed(all, h, Ledger(<<>>, TRUE)), result |-> Return(h)]

\* group as it would be if the group method of the new instance were left alone
groupUnguarded(all, h) ==
    [timings |-> Pushed(all, h, Ledger(<<>>, FALSE)),
     result |-> Return(h \o <<Len(TimingsOf(all, h)) + 1>>)]

\* group() on the ledger h: pushes a new instance whose group method throws and
\* returns it; on an instance made by group, the replaced method throws
group(all, h) ==
    IF GroupReplaced(all, h)
    THEN [timings |-> all, result |-> Throw(StrNesting)]
    ELSE [timings |-> Pushed(all, h, Ledger(<<>>, TRUE)),
          result |-> Return(h \o <<Len(TimingsOf(all, h)) + 1>>)]

\* the map callback of headers() for a label object: its parts joined by ";"
ServerTiming_headerValue(timing, clock) ==
    LET desc == IF StrTruthy(timing.desc)
                THEN <<StrDescEq \o Get(timing.desc) \o <<DQ>>>> ELSE <<>>
        dur == IF DurTruthy(timing.dur)
               THEN <<StrDurEq \o NumberToString(Get(timing.dur))>>
               ELSE IF IsSome(timing.start)
               THEN LET end == IF IsSome(timing.end) THEN Get(timing.end) ELSE DateTime(clock)
                    IN  <<StrDurEq \o Digits(end - Get(timing.start))>>
               ELSE <<>>
    IN  Join(<<timing.label>> \o desc \o dur, <<";">>)

RECURSIVE ServerTiming_headersApart(_, _)
\* headers() as it would be if a nested instance gave the first of its headers
\* and dropped the others
ServerTiming_headersApart(ts, clock) ==
    [i \in 1..Len(ts) |->
        IF IsLedger(ts[i])
        THEN LET inner == ServerTiming_headersApart(ts[i].timings, clock)
             IN  IF inner = <<>> THEN <<>> ELSE inner[1]
        ELSE ServerTiming_headerValue(ts[i], clock)]

RECURSIVE ServerTiming_headers(_, _)
\* headers(): string[] of a ledger whose timings are ts; a nested instance gives
\* its own headers joined by ", "
ServerTiming_headers(ts, clock) ==
    [i \in 1..Len(ts) |->
        IF IsLedger(ts[i])
        THEN Join(ServerTiming_headers(ts[i].timings, clock), CommaSpace)
        ELSE ServerTiming_headerValue(ts[i], clock)]

\* toString(): this.headers().join(', ')
ServerTiming_toString(ts, clock) == Join(ServerTiming_headers(ts, clock), CommaSpace)

\* the arguments of the note calls
NoteSpecs ==
    { StringLabel(LabelA),
      DetailedLabel(LabelDb, Some(DescList), Some(Num(53))) }

\* the arguments of the start and end calls on the ledgers
LedgerStartSpecs == { StringLabel(LabelA) }
LedgerEndSpecs == { StringLabel(LabelA) }

\* the label objects and instances in the tree of the top-level ledger
Nodes(all) ==
    Len(all) + Cardinality({ p \in (1..Len(all)) \X (1..(MaxLen + 1)) :
                                /\ IsLedger(all[p[1]])
                                /\ p[2] <= Len(all[p[1]].timings) })
\* the most of them explored
MaxNodes == MaxLen + 2
\* the arrays explored: the one of the ledger h is no longer than MaxLen
Explored(all, h) == Len(TimingsOf(all, h)) <= MaxLen /\ Nodes(all) <= MaxNodes

\* the record of a call on the ledger on: str is the message of an error or the
\* string of toString, list the array of headers, ref the ledger returned
CalledOn(op, on, result) ==
    [op |-> op, on |-> on, status |-> result.status,
     str |-> IF result.status = "throw" \/ op = "toString" THEN result.value ELSE <<>>,
     list |-> IF result.status = "return" /\ op = "headers" THEN result.value ELSE <<>>,
     ref |-> IF result.status = "return" /\ op \in {"new", "note", "group", "start", "end"}
             THEN Some(result.value) ELSE None]

\* new ServerTiming() of ServerTiming.ts, which takes no options
InitGroup ==
    /\ timings = <<>>
    /\ options = [precision |-> PlusInfinity]
    /\ now = FirstReading
    /\ tasks = [t \in Tasks |-> IdleTask]
    /\ last = CalledOn("new", Top, Return(Top))
    /\ closedBy = <<>>

\* h.note(obj)
NoteCall(h, obj) ==
    LET b == note(timings, h, obj)
    IN  /\ Explored(b.timings, h)
        /\ timings' = b.timings
        /\ last' = CalledOn("note", h, b.result)
        /\ UNCHANGED <<options, now, tasks, closedBy>>

\* h.group()
GroupCall(h) ==
    LET b == group(timings, h)
    IN  /\ Explored(b.timings, h)
        /\ timings' = b.timings
        /\ last' = CalledOn("group", h, b.result)
        /\ UNCHANGED <<options, now, tasks, closedBy>>

\* h.start(obj)
LedgerStartCall(h, obj) ==
    LET b == ServerTiming_start(timings, h, obj, now)
    IN  /\ Explored(b.timings, h)
        /\ timings' = b.timings
        /\ last' = CalledOn("start", h, b.result)
        /\ UNCHANGED <<options, now, tasks, closedBy>>

\* h.end(obj)
LedgerEndCall(h, obj) ==
    LET b == ServerTiming_end(timings, h, obj, now)
    IN  /\ timings' = b.timings
        /\ last' = CalledOn("end", h, b.result)
        /\ UNCHANGED <<options, now, tasks, closedBy>>

\* h.headers()
LedgerHeadersCall(h) ==
    /\ last' = CalledOn("headers", h, Return(ServerTiming_headers(TimingsOf(timings, h), now)))
    /\ UNCHANGED <<timings, options, now, tasks, closedBy>>

\* h.toString()
LedgerToStringCall(h) ==
    /\ last' = CalledOn("toString", h, Return(ServerTiming_toString(TimingsOf(timings, h), now)))
    /\ UNCHANGED <<timings, options, now, tasks, closedBy>>

\* the calls on the top-level ledger and on the groups it holds
NextGroup ==
    \/ \E h \in Handles(timings), obj \in NoteSpecs : NoteCall(h, obj)
    \/ \E h \in Handles(timings) : GroupCall(h)
    \/ \E h \in Handles(timings), obj \in LedgerStartSpecs : LedgerStartCall(h, obj)
    \/ \E h \in Handles(timings), obj \in LedgerEndSpecs : LedgerEndCall(h, obj)
    \/ \E h \in Handles(timings) : LedgerHeadersCall(h)
    \/ \E h \in Handles(timings) : LedgerToStringCall(h)

SpecGroup == InitGroup /\ [][NextGroup]_vars

----------------------------------------------------------------------------
(* Reading a header value back: what a client of the header sees. *)

RECURSIVE SplitFrom(_, _, _, _, _)
\* the pieces of s between the occurrences of sep that lie outside double quotes
SplitFrom(s, sep, from, i, quoted) ==
    IF i > Len(s) THEN <<SubSeq(s, from, Len(s))>>
    ELSE IF s[i] = DQ THEN SplitFrom(s, sep, from, i + 1, ~quoted)
    ELSE IF /\ ~quoted
            /\ s[i] = sep[1]
            /\ i + Len(sep) - 1 <= Len(s)
            /\ SubSeq(s, i, i + Len(sep) - 1) = sep
    THEN <<SubSeq(s, from, i - 1)>> \o SplitFrom(s, sep, i + Len(sep), i + Len(sep), FALSE)
    ELSE SplitFrom(s, sep, from, i + 1, quoted)

\* the metrics of a Server-Timing value
Fragments(s) == IF s = <<>> THEN <<>> ELSE SplitFrom(s, CommaSpace, 1, 1, FALSE)
\* the name and the parameters of a metric
Params(f) == SplitFrom(f, <<";">>, 1, 1, FALSE)
FragmentLabel(f) == Params(f)[1]

HasPrefix(s, pre) == Len(s) >= Len(pre) /\ SubSeq(s, 1, Len(pre)) = pre
AfterPrefix(s, pre) == SubSeq(s, Len(pre) + 1, Len(s))

KeyDur == <<"d", "u", "r", "=">>
KeyDesc == <<"d", "e", "s", "c", "=">>

\* the values of the parameters of f named by key
ParamValues(f, key) ==
    LET ps == Params(f)
    IN  { AfterPrefix(ps[k], key) : k \in { j \in 2..Len(ps) : HasPrefix(ps[j], key) } }
HasParam(f, key) == ParamValues(f, key) # {}
ParamValue(f, key) == CHOOSE v \in ParamValues(f, key) : TRUE

DigitValue(c) == CHOOSE d \in 0..9 : DigitChar(d) = c
IsDigit(c) == \E d \in 0..9 : DigitChar(d) = c

RECURSIVE ParseDecimal(_, _, _, _)
\* the number a decimal numeral denotes
ParseDecimal(s, i, num, den) ==
    IF i > Len(s) THEN [num |-> num, den |-> IF den = 0 THEN 1 ELSE den]
    ELSE IF s[i] = "." THEN ParseDecimal(s, i + 1, num, 1)
    ELSE ParseDecimal(s, i + 1, num * 10 + DigitValue(s[i]), den * 10)
ParseNumber(s) == ParseDecimal(s, 1, 0, 0)
IsNumeral(s) == s # <<>> /\ \A i \in 1..Len(s) : IsDigit(s[i]) \/ s[i] = "."

\* the digits after the decimal point of a numeral
Decimals(s) ==
    IF Contains(s, ".")
    THEN Len(s) - (CHOOSE i \in 1..Len(s) : s[i] = ".")
    ELSE 0

NumEq(a, b) == a.num * b.den = b.num * a.den
NumLess(a, b) == a.num * b.den < b.num * a.den
NumLeq(a, b) == a.num * b.den <= b.num * a.den

\* the entry states of the data model
Started(e) == IsSome(e.start)
Running(e) == IsSome(e.start) /\ ~IsSome(e.end) /\ ~IsSome(e.dur)
Finished(e) == IsSome(e.start) /\ IsSome(e.end) /\ ~IsSome(e.dur)

----------------------------------------------------------------------------
(* The claims. *)

EntryOf(t) == timings[tasks[t].idx + 1]
Tracked(t) == tasks[t].pc = "settled" /\ tasks[t].idx # -1

\* C1: every track call with a valid label closes the entry it appended, exactly
\* once and itself, before its promise settles, and the promise carries the
\* result or the error of the wrapped function unchanged.
C1_TrackClosesItsEntry ==
    \A t \in Tasks :
        Tracked(t) =>
            /\ IsSome(EntryOf(t).end)
            /\ closedBy[tasks[t].idx + 1] = <<t>>
            /\ tasks[t].promise \in {Fulfilled(FnValue), Rejected(FnError)}

\* C2: once every wrapped operation of the track calls in flight has completed,
\* every entry a track call created is ended and was closed by exactly one end
\* (stated for ledgers that hold nothing but the entries of track calls).
C2_InterleavedTracksAllClosed ==
    ( /\ \A t \in Tasks : tasks[t].pc # "awaiting"
      /\ Len(timings) = Cardinality({t \in Tasks : Tracked(t)})
      /\ \A i \in 1..Len(timings) : IsSome(timings[i].end) => closedBy[i] # <<>> )
    => \A t \in Tasks :
           Tracked(t) => IsSome(EntryOf(t).end) /\ Len(closedBy[tasks[t].idx + 1]) = 1

NoEntryLabelled(ts, label) == \A i \in 1..Len(ts) : ts[i].label # label

\* C3: end on a label the ledger holds no entry for throws "timing '<label>' was
\* never started" and leaves the ledger as it was.
C3_EndOfUnknownLabelThrows ==
    [][ \A obj \in EndSpecs :
          (NoEntryLabelled(timings, obj.label) /\ EndCall(obj)) =>
              /\ timings' = timings
              /\ last'.status = "throw"
              /\ last'.str = <<"t", "i", "m", "i", "n", "g", " ", "'">> \o obj.label
                    \o <<"'", " ", "w", "a", "s", " ", "n", "e", "v", "e", "r", " ",
                         "s", "t", "a", "r", "t", "e", "d">> ]_vars

\* C3 happens: end("db") has thrown on a ledger that holds entries, none of them db
C3_Witness ==
    /\ last.op = "end"
    /\ last.status = "throw"
    /\ Len(timings) > 0
    /\ NoEntryLabelled(timings, LabelDb)
    /\ HasPrefix(last.str, StrTiming \o LabelDb)

\* C4: end succeeds only on a label some entry was started under; when the
\* entries of that label all come from add, end throws and no entry gets an end.
C4_EndNeedsAStartedEntry ==
    [][ \A obj \in EndSpecs :
          ( /\ EndCall(obj)
            /\ \A i \in 1..Len(timings) :
                 timings[i].label = obj.label => ~Started(timings[i]) ) =>
              /\ last'.status = "throw"
              /\ timings' = timings ]_vars

\* a step of headers, toString or getRawTimings: in Next, the only steps that
\* leave the outcome of a read in last without the clock moving
ReadStep == last'.op \in Reads /\ now' = now

\* C5: headers, toString and getRawTimings leave the entries as they were; a
\* running entry is still running after it was rendered.
C5_ReadsChangeNothing ==
    [][ ReadStep =>
          /\ timings' = timings
          /\ \A i \in 1..Len(timings) : Running(timings[i]) => Running(timings'[i]) ]_vars

\* C5 happens: a running entry has been rendered, time has passed, and it is
\* still running
C5_Witness ==
    /\ last.op = "toString"
    /\ last.at < now
    /\ \E i \in 1..Len(timings) :
         /\ Running(timings[i])
         /\ HasParam(Fragments(last.str)[i], KeyDur)

\* the milliseconds between the start of e and the reading to
Elapsed(e, to) == [num |-> to - Get(e.start), den |-> NsPerMs]

\* v is x rounded to p decimals, the larger neighbour on a tie
RoundedTo(v, x, p) ==
    LET d == 2 * Pow10(p) * (v.num * x.den - x.num * v.den)
    IN  -(v.den * x.den) < d /\ d <= v.den * x.den

\* the dur parameters of the metrics of a Server-Timing value, <<>> where a
\* metric has none
DurTexts(s) ==
    LET fr == Fragments(s)
    IN  [i \in 1..Len(fr) |->
            CHOOSE text \in { IF vs = {} THEN <<>> ELSE CHOOSE v \in vs : TRUE :
                              vs \in {ParamValues(fr[i], KeyDur)} } : TRUE]
DurText(s, i) == DurTexts(s)[i]

\* toString has rendered every running entry as the clock of the render minus
\* its start, to the precision of the ledger
RunningRendersElapsed ==
    (last.op = "toString" /\ last.status = "return") =>
        LET texts == DurTexts(last.str)
            p == options.precision
        IN  \A i \in 1..Len(timings) :
                Running(timings[i]) =>
                    /\ IsNumeral(texts[i])
                    /\ IF IsFinite(p)
                       THEN RoundedTo(ParseNumber(texts[i]), Elapsed(timings[i], last.at), Get(p))
                       ELSE NumEq(ParseNumber(texts[i]), Elapsed(timings[i], last.at))

\* from one toString to the next, the dur of a running entry does not decrease,
\* and at unbounded precision it grows when the clock has advanced
RenderedAgain ==
    (last.op = "toString" /\ last'.op = "toString" /\ now' = now /\ last.at <= now) =>
        \A old \in {DurTexts(last.str)}, new \in {DurTexts(last'.str)} :
            \A i \in 1..Len(old) :
                Running(timings'[i]) =>
                    \A was \in {ParseNumber(old[i])}, is \in {ParseNumber(new[i])} :
                        /\ NumLeq(was, is)
                        /\ (~IsFinite(options.precision) /\ last.at < last'.at) => NumLess(was, is)

\* C6: a running entry renders the clock of the render minus its start (to the
\* precision of the ledger); from one render to the next the value never
\* decreases, and at unbounded precision it grows when the clock has advanced.
C6_RunningDurationGrows == []RunningRendersElapsed /\ [][RenderedAgain]_vars

\* C6 happens: a running entry was rendered at unbounded precision two readings
\* of the clock after its start
C6_Witness ==
    /\ last.op = "toString"
    /\ ~IsFinite(options.precision)
    /\ \E i \in 1..Len(timings) :
         /\ Running(timings[i])
         /\ last.at >= Get(timings[i].start) + 2 * TickNs
         /\ NumEq(ParseNumber(DurText(last.str, i)), Elapsed(timings[i], last.at))

\* C7, as stated: a started and ended entry renders exactly end - start in
\* milliseconds, whatever the clock of the render.
C7_FinishedDurationExact ==
    (last.op = "toString" /\ last.status = "return") =>
        \A i \in 1..Len(timings) :
            Finished(timings[i]) =>
                /\ IsNumeral(DurText(last.str, i))
                /\ NumEq(ParseNumber(DurText(last.str, i)),
                         Elapsed(timings[i], Get(timings[i].end)))

\* C7, amended: a started and ended entry renders a non-negative number that is
\* end - start in milliseconds formatted to the precision of the ledger (exact at
\* unbounded precision, else rounded to that many decimals), whatever the clock
\* of the render.
C7_FinishedDurationFormatted ==
    (last.op = "toString" /\ last.status = "return") =>
        \A i \in 1..Len(timings) :
            Finished(timings[i]) =>
                LET text == DurText(last.str, i)
                    exact == Elapsed(timings[i], Get(timings[i].end))
                    p == options.precision
                IN  /\ HasParam(Fragments(last.str)[i], KeyDur)
                    /\ IsNumeral(text)
                    /\ IF IsFinite(p)
                       THEN /\ Decimals(text) = Get(p)
                            /\ RoundedTo(ParseNumber(text), exact, Get(p))
                       ELSE NumEq(ParseNumber(text), exact)

\* C7 happens: at a finite precision, an entry that ended a fraction of a
\* millisecond after its start was rendered after the clock had moved on
C7_Witness ==
    /\ last.op = "toString"
    /\ IsFinite(options.precision)
    /\ \E i \in 1..Len(timings) :
         /\ Finished(timings[i])
         /\ (Get(timings[i].end) - Get(timings[i].start)) % NsPerMs # 0
         /\ last.at > Get(timings[i].end)

\* the labels of the metrics match the labels of the entries, one for one
LabelsInOrder(fr) ==
    /\ Len(fr) = Len(timings)
    /\ \A i \in 1..Len(timings) : FragmentLabel(fr[i]) = timings[i].label

\* C8: toString gives one fragment per entry, in insertion order, joined by
\* ", "; no call reorders the entries, so an entry created later never renders
\* before an earlier one.
C8_FragmentsInInsertionOrder ==
    /\ []( /\ (last.op = "toString" /\ last.status = "return") =>
                LabelsInOrder(Fragments(last.str))
           /\ (last.op = "headers" /\ last.status = "return") =>
                LabelsInOrder(last.list) )
    /\ [][ /\ Len(timings') >= Len(timings)
           /\ \A i \in 1..Len(timings) :
                /\ timings'[i].label = timings[i].label
                /\ timings'[i].start = timings[i].start ]_vars

\* C8 happens: toString has rendered, after its end, a timer that was started
\* and ended, followed by an entry of another label
C8_Witness ==
    /\ last.op = "toString"
    /\ Len(timings) = 2
    /\ timings[1].label # timings[2].label
    /\ Finished(timings[1])
    /\ Get(timings[1].end) > Get(timings[1].start)
    /\ last.at > Get(timings[1].end)
    /\ Len(Fragments(last.str)) = 2

\* C9: an entry made by add renders as its label, followed by ;desc="<desc>"
\* exactly when a description was given (the empty one included), and by nothing
\* more when it has neither a duration nor a start.
C9_AddRendersLabelAndDesc ==
    (last.op = "headers" /\ last.status = "return") =>
        \A i \in 1..Len(timings) :
            ~Started(timings[i]) =>
                LET e == timings[i]
                    f == last.list[i]
                    head == IF IsSome(e.desc)
                            THEN e.label \o <<";", "d", "e", "s", "c", "=", DQ>>
                                    \o Get(e.desc) \o <<DQ>>
                            ELSE e.label
                IN  /\ HasPrefix(f, head)
                    /\ IsSome(e.desc) <=> HasParam(f, KeyDesc)
                    /\ ~IsSome(e.dur) => f = head

\* C10: an entry created with an explicit duration d >= 0 renders ;dur=d, also
\* when it was started.
C10_ExplicitDurationRendered ==
    (last.op = "headers" /\ last.status = "return") =>
        \A i \in 1..Len(timings) :
            IsSome(timings[i].dur) =>
                /\ HasParam(last.list[i], KeyDur)
                /\ NumEq(ParseNumber(ParamValue(last.list[i], KeyDur)), Get(timings[i].dur))

\* C11: an explicit duration that is rendered is rendered verbatim, as the
\* number that was given and with the decimals it was given with, whatever the
\* precision (47.2 stays 47.2 at precision 0), while in the same value a measured
\* duration carries exactly the decimals of a finite precision.
C11_ExplicitDurationVerbatim ==
    (last.op = "headers" /\ last.status = "return") =>
        \A i \in 1..Len(timings) :
            /\ DurTruthy(timings[i].dur) =>
                 /\ HasParam(last.list[i], KeyDur)
                 /\ IsNumeral(ParamValue(last.list[i], KeyDur))
                 /\ NumEq(ParseNumber(ParamValue(last.list[i], KeyDur)), Get(timings[i].dur))
                 /\ Get(timings[i].dur) = DurApp =>
                      ParamValue(last.list[i], KeyDur) = <<"4", "7", ".", "2">>
            /\ (Finished(timings[i]) /\ IsFinite(options.precision)) =>
                 /\ HasParam(last.list[i], KeyDur)
                 /\ Decimals(ParamValue(last.list[i], KeyDur)) = Get(options.precision)

\* C11 happens: at precision 0, headers has rendered app with its 47.2 beside a
\* timer that measured a fraction of a millisecond
C11_Witness ==
    /\ last.op = "headers"
    /\ options.precision = Some(0)
    /\ Len(timings) = 2
    /\ \E i, j \in 1..2 :
         /\ timings[i].label = LabelApp
         /\ timings[i].dur = Some(DurApp)
         /\ last.list[i] = <<"a", "p", "p", ";", "d", "u", "r", "=", "4", "7", ".", "2">>
         /\ Finished(timings[j])
         /\ (Get(timings[j].end) - Get(timings[j].start)) % NsPerMs # 0

\* no ledger held by a group is itself a holder of ledgers
NoGroupInGroup ==
    \A i \in 1..Len(timings) :
        IsLedger(timings[i]) =>
            \A j \in 1..Len(timings[i].timings) : ~IsLedger(timings[i].timings[j])

\* C12: group() on a ledger that group() returned throws 'groups cannot be more
\* than one level deep', creates no ledger and leaves the outer sequence, the
\* first group included, as it was; no ledger ever holds a group inside a group.
C12_GroupsOneLevelDeep ==
    /\ []NoGroupInGroup
    /\ [][ \A h \in Handles(timings) :
             (h # Top /\ GroupCall(h)) =>
                 /\ last'.status = "throw"
                 /\ last'.str = <<"g", "r", "o", "u", "p", "s", " ", "c", "a", "n", "n", "o", "t",
                                  " ", "b", "e", " ", "m", "o", "r", "e", " ", "t", "h", "a", "n",
                                  " ", "o", "n", "e", " ", "l", "e", "v", "e", "l", " ",
                                  "d", "e", "e", "p">>
                 /\ timings' = timings
                 /\ Handles(timings') = Handles(timings) ]_vars

\* C12 happens: group() has thrown on the group the top-level ledger holds
C12_Witness ==
    /\ last.op = "group"
    /\ last.on # Top
    /\ last.status = "throw"
    /\ IsLedger(timings[last.on[1]])

\* f is the fragment of the label object e: its label, a desc parameter holding
\* its description when it has a non-empty one, a dur parameter holding its
\* duration when it has a non-zero one and else, when it was started, the
\* milliseconds from its start to its end or to the clock
FragmentOfNote(f, e) ==
    /\ FragmentLabel(f) = e.label
    /\ HasParam(f, KeyDesc) <=> StrTruthy(e.desc)
    /\ StrTruthy(e.desc) => ParamValue(f, KeyDesc) = <<DQ>> \o Get(e.desc) \o <<DQ>>
    /\ HasParam(f, KeyDur) <=> (DurTruthy(e.dur) \/ IsSome(e.start))
    /\ DurTruthy(e.dur) => NumEq(ParseNumber(ParamValue(f, KeyDur)), Get(e.dur))
    /\ (~DurTruthy(e.dur) /\ IsSome(e.start)) =>
          NumEq(ParseNumber(ParamValue(f, KeyDur)),
                Num((IF IsSome(e.end) THEN Get(e.end) ELSE DateTime(now)) - Get(e.start)))

\* C13: headers() of the top-level ledger gives one fragment per top-level
\* element, in insertion order; a group gives one fragment at its position, the
\* fragments of its children joined by ", ", whatever was pushed through its handle.
C13_GroupIsOneFragment ==
    (last.op = "headers" /\ last.on = Top) =>
        /\ Len(last.list) = Len(timings)
        /\ \A i \in 1..Len(timings) :
             LET fr == Fragments(last.list[i])
             IN  IF IsLedger(timings[i])
                 THEN /\ Len(fr) = Len(timings[i].timings)
                      /\ last.list[i] = Join(fr, <<",", " ">>)
                      /\ \A j \in 1..Len(fr) : FragmentOfNote(fr[j], timings[i].timings[j])
                 ELSE /\ fr = <<last.list[i]>>
                      /\ FragmentOfNote(last.list[i], timings[i])

\* C13 happens: the top-level ledger holds a group with two notes pushed through
\* its handle, then a note of its own, and headers() gave the group as the one
\* fragment a, db;desc="x, y";dur=53
C13_Witness ==
    /\ last.op = "headers"
    /\ last.on = Top
    /\ Len(timings) = 2
    /\ IsLedger(timings[1])
    /\ ~IsLedger(timings[2])
    /\ Len(timings[1].timings) = 2
    /\ Len(last.list) = 2
    /\ last.list[1] = <<"a", ",", " ", "d", "b", ";", "d", "e", "s", "c", "=", DQ,
                        "x", ",", " ", "y", DQ, ";", "d", "u", "r", "=", "5", "3">>

\* the visible characters of ASCII (the backquote left out, as in TokenChars)
VisibleAscii ==
    {"a", "b", "c", "d", "e", "f", "g", "h", "i", "j", "k", "l", "m",
     "n", "o", "p", "q", "r", "s", "t", "u", "v", "w", "x", "y", "z",
     "A", "B", "C", "D", "E", "F", "G", "H", "I", "J", "K", "L", "M",
     "N", "O", "P", "Q", "R", "S", "T", "U", "V", "W", "X", "Y", "Z",
     "0", "1", "2", "3", "4", "5", "6", "7", "8", "9",
     "!", DQ, "#", "$", "%", "&", "'", "(", ")", "*", "+", ",", "-", ".", "/",
     ":", ";", "<", "=", ">", "?", "@", "[", "\\", "]", "^", "_", "{", "|", "}", "~"}
\* the delimiters of RFC 7230, section 3.2.6
Delimiters ==
    {DQ, "(", ")", ",", "/", ":", ";", "<", "=", ">", "?", "@", "[", "\\", "]", "{", "}"}
\* the HTTP token grammar: one or more visible characters, none a delimiter
TChars == VisibleAscii \ Delimiters
IsToken(s) == s # <<>> /\ \A i \in 1..Len(s) : s[i] \in TChars

\* where entries stand after a step that appended one made from obj
AppendedFrom(obj) ==
    /\ Len(timings') = Len(timings) + 1
    /\ SubSeq(timings', 1, Len(timings)) = timings
    /\ timings'[Len(timings')].label = obj.label
    /\ timings'[Len(timings')].desc = obj.desc

\* obj passes validation: a token for a label, no double quote in a description
Acceptable(obj) == IsToken(obj.label) /\ (IsSome(obj.desc) => ~Contains(Get(obj.desc), DQ))

\* C14: add, start and track refuse a label that is not a token (one with ':',
\* '/', '\', a space, another non-token character, or none at all) and leave the
\* ledger as it was; they take every token, the percent-encoded form of a
\* refused label included; so every entry's label is a token.
C14_LabelsAreTokens ==
    /\ [](\A i \in 1..Len(timings) : IsToken(timings[i].label))
    /\ []( /\ \A l \in RefusedLabels : ~IsToken(l)
           /\ \A l \in EncodedLabels : IsToken(l) )
    /\ [][ /\ last'.op = "add" =>
                \A obj \in TextAddSpecs :
                    AddCall(obj) =>
                        /\ ~IsToken(obj.label) => (last'.status = "throw" /\ timings' = timings)
                        /\ Acceptable(obj) => (last'.status = "return" /\ AppendedFrom(obj))
           /\ last'.op = "start" =>
                \A obj \in TextStartSpecs :
                    StartCall(obj) =>
                        /\ ~IsToken(obj.label) => (last'.status = "throw" /\ timings' = timings)
                        /\ Acceptable(obj) => (last'.status = "return" /\ AppendedFrom(obj))
           /\ tasks'[TextTask] # tasks[TextTask] =>
                \A obj \in TextStartSpecs :
                    (TrackRefused(TextTask, obj) \/ TrackCall(TextTask, obj)) =>
                        /\ ~IsToken(obj.label) =>
                             (tasks'[TextTask].promise.state = "rejected" /\ timings' = timings)
                        /\ Acceptable(obj) =>
                             (tasks'[TextTask].pc = "awaiting" /\ AppendedFrom(obj)) ]_vars

\* C14 happens: the ledger holds an entry labelled a%2Fb, and add('a/b') has just
\* thrown on it
C14_Witness ==
    /\ last.op = "add"
    /\ last.status = "throw"
    /\ last.str = <<"'">> \o LabelSlash \o StrNotValidLabel
    /\ \E i \in 1..Len(timings) : timings[i].label = <<"a", "%", "2", "F", "b">>

\* obj carries a description with a double quote in it
QuotedDesc(obj) == IsSome(obj.desc) /\ Contains(Get(obj.desc), DQ)

\* C15: add, start and track refuse a description that holds a double quote and
\* leave the ledger as it was; a description without one (on a valid label) is
\* taken and stored as given; so no entry's description holds a double quote.
C15_NoQuoteInDescriptions ==
    /\ [](\A i \in 1..Len(timings) :
            IsSome(timings[i].desc) => ~Contains(Get(timings[i].desc), DQ))
    /\ [][ /\ last'.op = "add" =>
                \A obj \in TextAddSpecs :
                    AddCall(obj) =>
                        /\ QuotedDesc(obj) => (last'.status = "throw" /\ timings' = timings)
                        /\ (IsToken(obj.label) /\ ~QuotedDesc(obj)) =>
                             (last'.status = "return" /\ AppendedFrom(obj))
           /\ last'.op = "start" =>
                \A obj \in TextStartSpecs :
                    StartCall(obj) =>
                        /\ QuotedDesc(obj) => (last'.status = "throw" /\ timings' = timings)
                        /\ (IsToken(obj.label) /\ ~QuotedDesc(obj)) =>
                             (last'.status = "return" /\ AppendedFrom(obj))
           /\ tasks'[TextTask] # tasks[TextTask] =>
                \A obj \in TextStartSpecs :
                    (TrackRefused(TextTask, obj) \/ TrackCall(TextTask, obj)) =>
                        /\ QuotedDesc(obj) =>
                             (tasks'[TextTask].promise.state = "rejected" /\ timings' = timings)
                        /\ (IsToken(obj.label) /\ ~QuotedDesc(obj)) =>
                             (tasks'[TextTask].pc = "awaiting" /\ AppendedFrom(obj)) ]_vars

\* C15 happens: the ledger holds an entry described x, y as given, and an add
\* with the description x" has just thrown on it
C15_Witness ==
    /\ last.op = "add"
    /\ last.status = "throw"
    /\ last.str = <<"'", "x", DQ>> \o StrNotValidDesc
    /\ \E i \in 1..Len(timings) : timings[i].desc = Some(<<"x", ",", " ", "y">>)

\* C16: a track call whose label or description fails validation raises the error
\* where it is called: the error is not delivered through a rejected promise;
\* the wrapped operation is not called, no entry is appended, no end is attempted.
C16_TrackRaisesAtTheCall ==
    \A t \in Tasks :
        (tasks[t].pc # "idle" /\ ~Acceptable(tasks[t].arg)) =>
            /\ tasks[t].promise.state # "rejected"
            /\ tasks[t].idx = -1

\* C17: on every ledger that successful calls have built, whatever descriptions
\* passed validation, headers, toString and getRawTimings return a value.
C17_RenderNeverFails ==
    last.op \in Reads => last.status = "return"

\* the positions of the entries labelled label, and of those among them that
\* have no end yet
Labelled(ts, label) == { i \in 1..Len(ts) : ts[i].label = label }
Unfinished(ts, label) == { i \in Labelled(ts, label) : ~IsSome(ts[i].end) }
Latest(S) == CHOOSE i \in S : \A j \in S : j <= i

\* C18: a successful end writes the clock on the most recently created entry of
\* that label that has no end yet, and on no other entry; it writes on a
\* finished entry only when the label has no unfinished one (stated for labels
\* whose entries were all started).
C18_EndTargetsLatestUnfinished ==
    [][ last'.op = "end" =>
          \A obj \in EndSpecs :
            ( /\ EndCall(obj)
              /\ last'.status = "return"
              /\ \A i \in Labelled(timings, obj.label) : Started(timings[i]) ) =>
                LET open == Unfinished(timings, obj.label)
                    target == IF open # {} THEN Latest(open)
                              ELSE Latest(Labelled(timings, obj.label))
                IN  /\ open # {} => timings'[target].end = Some(now)
                    /\ \A i \in 1..Len(timings) :
                         (i \notin Labelled(timings, obj.label) \/ (open # {} /\ i # target))
                            => timings'[i] = timings[i] ]_vars

\* the label objects of the ledger h itself, its groups left as holes
OwnEntries(all, h) ==
    [ i \in 1..Len(TimingsOf(all, h)) |->
        IF IsLedger(TimingsOf(all, h)[i]) THEN <<>> ELSE <<TimingsOf(all, h)[i]>> ]

\* every ledger but h keeps the label objects and the length it had
OthersKept(h) ==
    \A g \in Handles(timings) \ {h} : OwnEntries(timings', g) = OwnEntries(timings, g)

\* C19: note (add), start and end return the instance they were called on and
\* change that ledger only; group() returns a new, empty ledger other than the
\* one it was called on, pushed onto it; so a call chained after group() grows
\* the group and leaves the sequence of the parent as long as it was.
C19_ChainingReturnsThisAndGroupItsNew ==
    [][ \A h \in {last'.on} :
          /\ (last'.op \in {"note", "start"}) =>
                /\ last'.ref = Some(h)
                /\ Len(OwnEntries(timings', h)) = Len(OwnEntries(timings, h)) + 1
                /\ SubSeq(TimingsOf(timings', h), 1, Len(TimingsOf(timings, h))) = TimingsOf(timings, h)
                /\ OthersKept(h)
                /\ h # Top => Len(timings') = Len(timings)
          /\ (last'.op = "end" /\ last'.status = "return") =>
                /\ last'.ref = Some(h)
                /\ Len(OwnEntries(timings', h)) = Len(OwnEntries(timings, h))
                /\ OthersKept(h)
          /\ (last'.op = "group" /\ last'.status = "return") =>
                /\ last'.ref = Some(h \o <<Len(TimingsOf(timings, h)) + 1>>)
                /\ Get(last'.ref) \in Handles(timings') \ Handles(timings)
                /\ TimingsOf(timings', Get(last'.ref)) = <<>>
                /\ OwnEntries(timings', h) = Append(OwnEntries(timings, h), <<>>)
                /\ OthersKept(h) ]_vars

\* C19 happens: group().start('a').end('a') on a ledger holding a note: the
\* calls after group() were made on the handle it returned, the started and
\* ended entry is in the group and the parent holds its note and the group
C19_Witness ==
    /\ last.op = "end"
    /\ last.on = <<2>>
    /\ last.ref = Some(<<2>>)
    /\ Len(timings) = 2
    /\ ~IsLedger(timings[1])
    /\ IsLedger(timings[2])
    /\ Len(timings[2].timings) = 1
    /\ IsSome(timings[2].timings[1].end)

\* C20: the Headers object of headers() and the string of toString() agree: read
\* one after the other at the same clock, toString() gives what get(headerKey) gives on the object
\* of headers() when the ledger is not empty, and the empty string, with no
\* value under the key, when it is empty.
C20_HeadersAndStringAgree ==
    [][ (last.op = "headers" /\ last'.op = "toString" /\ last.at = now) =>
          /\ last'.status = last.status
          /\ last.status = "return" =>
                IF timings = <<>>
                THEN HeadersGet(last.list) = None /\ last'.str = <<>>
                ELSE HeadersGet(last.list) = Some(last'.str) ]_vars

\* C20 happens: toString() of a ledger of two entries, one of them running, gave
\* both fragments in one string
C20_Witness ==
    /\ last.op = "toString"
    /\ last.status = "return"
    /\ Len(timings) = 2
    /\ \E i \in 1..2 : Running(timings[i])
    /\ Len(Fragments(last.str)) = 2

\* the label of a raw timing: the label of the entry, followed by " (<desc>)" when
\* a description was given
RawLabel(e) ==
    IF IsSome(e.desc) THEN e.label \o <<" ", "(">> \o Get(e.desc) \o <<")">> ELSE e.label

\* d is the measured duration of e read at the clock at: its end, or the clock
\* for a running entry, minus its start, in milliseconds to the precision p
RawMeasured(d, e, at, p) ==
    LET exact == Elapsed(e, IF IsSome(e.end) THEN Get(e.end) ELSE at)
    IN  IF IsFinite(p)
        THEN /\ d.type = "string"
             /\ IsNumeral(d.str)
             /\ RoundedTo(ParseNumber(d.str), exact, Get(p))
        ELSE d.type = "number" /\ NumEq(d.num, exact)

\* C21: getRawTimings gives one element per entry, in insertion order: a string
\* for a note (no duration given, never started), else a pair; the string, or
\* the first component of the pair, is the label followed by " (<desc>)" exactly
\* when a description was given; the duration of a pair is the explicit one when
\* one was given, else the measured one.
C21_RawTimingPerEntry ==
    (last.op = "getRawTimings" /\ last.status = "return") =>
        /\ Len(last.raw) = Len(timings)
        /\ \A i \in 1..Len(timings) :
             LET e == timings[i]
                 r == last.raw[i]
             IN  /\ r.label = RawLabel(e)
                 /\ r.kind = "string" <=> (~IsSome(e.dur) /\ ~IsSome(e.start))
                 /\ IsSome(e.dur) =>
                       r.kind = "pair" /\ r.dur.type = "number" /\ NumEq(r.dur.num, Get(e.dur))
                 /\ (~IsSome(e.dur) /\ IsSome(e.start)) =>
                       r.kind = "pair" /\ RawMeasured(r.dur, e, last.at, options.precision)

\* C22: a ledger holds at most one entry of any label: whatever add, start and
\* track calls were made, no two entries of timings have equal labels.
C22_LabelsUnique ==
    \A i, j \in 1..Len(timings) : timings[i].label = timings[j].label => i = j

\* the entries of ts before the place i that carry the label
EarlierLabelled(ts, label, i) == { j \in 1..(i - 1) : ts[j].label = label }

EndRuns ==
    \/ \E obj \in EndSpecs : EndCall(obj)
    \/ \E t \in Tasks : tasks[t].pc # "settled" /\ tasks'[t].pc = "settled"

\* C24: the ledger only grows and only end writes to an entry: no step shortens
\* timings or reorders it, the label, description, explicit duration and start
\* of an entry stay as they were when it was created, and the end of an entry
\* changes only in a step where end runs (called directly or by track), to the
\* clock of that step.
C24_AppendOnlyEndOnly ==
    [][ /\ Len(timings') >= Len(timings)
        /\ \A i \in 1..Len(timings) :
             /\ timings'[i].label = timings[i].label
             /\ timings'[i].desc = timings[i].desc
             /\ timings'[i].dur = timings[i].dur
             /\ timings'[i].start = timings[i].start
             /\ timings'[i].end # timings[i].end =>
                   EndRuns /\ timings'[i].end = Some(now) ]_vars

\* C24 happens: a note was added, track('db', fn) started its entry behind it
\* and ended it at a later clock when fn completed; the note is as it was added
C24_Witness ==
    /\ Len(timings) = 2
    /\ timings[1] = Entry(LabelA, None, None, None, None)
    /\ timings[2].label = LabelDb
    /\ Finished(timings[2])
    /\ Get(timings[2].end) > Get(timings[2].start)
    /\ \E t \in Tasks : tasks[t].pc = "settled" /\ tasks[t].idx = 1

\* the ledger h holds no label object of its own with the label
NoneOwnLabelled(all, h, label) ==
    \A i \in 1..Len(TimingsOf(all, h)) :
        IsLedger(TimingsOf(all, h)[i]) \/ TimingsOf(all, h)[i].label # label

\* C25: end is scoped to the ledger it is called on: it never writes to a label
\* object of another ledger (a group of it, its parent, a sibling group), and
\* when no label object of its own carries the label it throws the not-started
\* error and changes nothing, though a group or the parent holds that label.
C25_EndScopedToItsLedger ==
    [][ last'.op = "end" =>
          \A h \in {last'.on}, obj \in LedgerEndSpecs :
            LedgerEndCall(h, obj) =>
                /\ OthersKept(h)
                /\ Handles(timings') = Handles(timings)
                /\ NoneOwnLabelled(timings, h, obj.label) =>
                      /\ last'.status = "throw"
                      /\ last'.str = StrTiming \o obj.label \o StrNeverStarted
                      /\ timings' = timings ]_vars

\* C25 happens: a was started inside a group only, end('a') on the parent has
\* thrown and the entry in the group is still running
C25_Witness ==
    /\ last.op = "end"
    /\ last.on = Top
    /\ last.status = "throw"
    /\ NoneOwnLabelled(timings, Top, LabelA)
    /\ \E i \in 1..Len(timings) :
         /\ IsLedger(timings[i])
         /\ \E j \in 1..Len(timings[i].timings) :
              /\ timings[i].timings[j].label = LabelA
              /\ IsSome(timings[i].timings[j].start)
              /\ ~IsSome(timings[i].timings[j].end)

\* text is the measured duration x written to the precision p: with a finite p,
\* x rounded to p decimals and written with exactly p digits after the point,
\* with no point at all when p is 0; else the numeral of x itself
WrittenTo(text, x, p) ==
    /\ IsNumeral(text)
    /\ IF IsFinite(p)
       THEN /\ Decimals(text) = Get(p)
            /\ Get(p) = 0 => ~Contains(text, ".")
            /\ RoundedTo(ParseNumber(text), x, Get(p))
       ELSE /\ NumEq(ParseNumber(text), x)
            /\ text = NumberToString(x)

\* C26: a measured duration is written to the precision the ledger was made
\* with: exactly p digits after the point for a finite p (none, and no point,
\* for 0), the full value of the milliseconds at the default, unbounded one; and
\* no step changes the precision.
C26_PrecisionFixedAtConstruction ==
    /\ []( (last.op = "toString" /\ last.status = "return") =>
              \A texts \in {DurTexts(last.str)} :
                 \A i \in 1..Len(timings) :
                    (Started(timings[i]) /\ ~DurTruthy(timings[i].dur)) =>
                        WrittenTo(texts[i],
                                  Elapsed(timings[i], IF IsSome(timings[i].end)
                                                      THEN Get(timings[i].end) ELSE last.at),
                                  options.precision) )
    /\ [][options' = options]_vars

\* C26 happens: at precision 2 a timer that ran for half a millisecond was
\* rendered as 0.50
C26_Witness ==
    /\ last.op = "toString"
    /\ options.precision = Some(2)
    /\ Len(timings) >= 1
    /\ Finished(timings[1])
    /\ Get(timings[1].end) - Get(timings[1].start) = 2 * TickNs
    /\ DurText(last.str, 1) = <<"0", ".", "5", "0">>

\* the duration the entry e renders with at the clock of the step
RenderedDur(e) ==
    ParseNumber(ParamValue(HeaderValue(e, options.precision, now), KeyDur))

\* C27: an end that returns writes the end of exactly one entry, one that
\* carries the label, with the clock of the call, and leaves every other entry,
\* the length and the order as they were; an entry that had an end already gets
\* the later reading, and the duration it renders with does not shrink.
C27_EndWritesOneEntry ==
    [][ (last'.op = "end" /\ last'.status = "return") =>
          \A obj \in EndSpecs :
            EndCall(obj) =>
              \E i \in 1..Len(timings) :
                 /\ timings[i].label = obj.label
                 /\ timings' = [timings EXCEPT ![i].end = Some(now)]
                 /\ IsSome(timings[i].end) =>
                       /\ Get(timings[i].end) <= now
                       /\ (Started(timings[i]) /\ ~DurTruthy(timings[i].dur)) =>
                             NumLeq(RenderedDur(timings[i]), RenderedDur(timings'[i])) ]_vars

\* C27 happens: of two timers started under one label, end has written the
\* clock on one, after its start, and the other is still running
C27_Witness ==
    /\ last.op = "end"
    /\ last.status = "return"
    /\ Len(timings) = 2
    /\ timings[1].label = timings[2].label
    /\ Finished(timings[1])
    /\ timings[1].end = Some(now)
    /\ Get(timings[1].start) < now
    /\ Running(timings[2])

RECURSIVE Leaves(_)
\* the label objects of a ledger and of its groups, depth first
Leaves(ts) ==
    IF ts = <<>> THEN <<>>
    ELSE (IF IsLedger(Head(ts)) THEN Leaves(Head(ts).timings) ELSE <<Head(ts)>>)
            \o Leaves(Tail(ts))

\* C28: toString() of a ledger with groups is the fragments of all its label
\* objects, those of a group at the place of the group, joined by ", ", also
\* when a group is empty; the value holds no empty fragment: it neither starts
\* nor ends with ", " and has no ", , " inside.
C28_GroupsJoinWithoutGaps ==
    (last.op = "toString" /\ last.status = "return") =>
        LET leaves == Leaves(TimingsOf(timings, last.on))
        IN  /\ last.str = Join([i \in 1..Len(leaves) |->
                                   ServerTiming_headerValue(leaves[i], now)], CommaSpace)
            /\ last.str # <<>> =>
                  \A i \in 1..Len(Fragments(last.str)) : Fragments(last.str)[i] # <<>>

\* C29: headers() and getRawTimings(), read one after the other at the same
\* clock, agree entry by entry: the raw element is a pair exactly when the
\* header value has a dur parameter, a bare string exactly when it has none, and
\* the duration of the pair, written out, is the value of that parameter.
C29_RawAgreesWithHeaders ==
    [][ ( /\ last.op = "headers" /\ last.status = "return"
          /\ last'.op = "getRawTimings" /\ last.at = now ) =>
          /\ last'.status = "return"
          /\ Len(last'.raw) = Len(last.list)
          /\ \A i \in 1..Len(last.list) :
               /\ last'.raw[i].kind \in {"pair", "string"}
               /\ last'.raw[i].kind = "pair" <=> HasParam(last.list[i], KeyDur)
               /\ last'.raw[i].kind = "pair" =>
                     ParamValue(last.list[i], KeyDur) = Interpolate(last'.raw[i].dur) ]_vars

\* C29 happens: getRawTimings has given a pair for a timer that has been running
\* for some time and a bare string for a note
C29_Witness ==
    /\ last.op = "getRawTimings"
    /\ Len(timings) = 2
    /\ \E i, j \in 1..2 :
         /\ Running(timings[i])
         /\ Get(timings[i].start) < last.at
         /\ last.raw[i].kind = "pair"
         /\ ~Started(timings[j]) /\ ~IsSome(timings[j].dur)
         /\ last.raw[j].kind = "string"

=========================================================================
